---- MODULE Spec2Model ----
(***************************************************************************)
(* A model of backend/app/main.py, the text simplifier of the AI Study     *)
(* Assistant: the character-level helpers (regular expressions, difflib),  *)
(* the fact extractors, the rule rewriter, the generate/verify/fallback    *)
(* pipeline of simplify_text, and the lazily loaded model singleton.       *)
(*                                                                         *)
(* A text is a sequence of one-character strings, Chars("ab") = <<"a","b">>.*)
(* The alphabet is ASCII; \s is the ASCII whitespace, \w is [A-Za-z0-9_].  *)
(***************************************************************************)
EXTENDS Integers, Sequences, FiniteSets, TLC

Chars(s) == [i \in 1..Len(s) |-> SubSeq(s, i, i)]

UpperSeq == Chars("ABCDEFGHIJKLMNOPQRSTUVWXYZ")
LowerSeq == Chars("abcdefghijklmnopqrstuvwxyz")
DigitSeq == Chars("0123456789")

Range(f) == {f[i] : i \in DOMAIN f}

IsUpper(c) == c \in Range(UpperSeq)
IsLower(c) == c \in Range(LowerSeq)
IsDigit(c) == c \in Range(DigitSeq)
IsAlpha(c) == IsUpper(c) \/ IsLower(c)
\* \w of the re module, on ASCII
IsWord(c) == IsAlpha(c) \/ IsDigit(c) \/ c = "_"
\* \s of the re module and str.strip()/str.split(), on ASCII
IsSpace(c) == c \in {" ", "\t", "\n", "\r"}

\* str.lower() on one character
LowerChar(c) ==
    IF IsUpper(c) THEN LowerSeq[CHOOSE i \in DOMAIN UpperSeq : UpperSeq[i] = c] ELSE c

\* str.lower()
Lower(s) == [i \in DOMAIN s |-> LowerChar(s[i])]

Max(S) == CHOOSE x \in S : \A y \in S : y <= x
Min(S) == CHOOSE x \in S : \A y \in S : x <= y

\* s[i..j-1]: the slice between positions i and j (j exclusive)
Slice(s, i, j) == SubSeq(s, i, j - 1)

\* the literal lit stands in s at position i (re.IGNORECASE when ci)
LitAt(s, i, lit, ci) ==
    /\ i >= 1
    /\ i + Len(lit) - 1 <= Len(s)
    /\ \A k \in 1..Len(lit) :
          IF ci THEN LowerChar(s[i + k - 1]) = LowerChar(lit[k])
          ELSE s[i + k - 1] = lit[k]

\* \b between s[i-1] and s[i] (i = 1: the start, i = Len(s)+1: the end)
Boundary(s, i) ==
    LET before == i > 1 /\ i - 1 <= Len(s) /\ IsWord(s[i - 1])
        after  == i >= 1 /\ i <= Len(s) /\ IsWord(s[i])
    IN  before # after

\* the position after the whitespace run that starts at i (i itself when none)
RECURSIVE SkipSpace(_, _)
SkipSpace(s, i) ==
    IF i <= Len(s) /\ IsSpace(s[i]) THEN SkipSpace(s, i + 1) ELSE i

\* the position after the digit run that starts at i
RECURSIVE SkipDigits(_, _)
SkipDigits(s, i) ==
    IF i <= Len(s) /\ IsDigit(s[i]) THEN SkipDigits(s, i + 1) ELSE i

\* re.sub for a pattern that never matches the empty string: MatchEnd(s, i) is
\* the position after the match that starts at i, or 0; Repl(s, i, e) is what
\* replaces s[i..e-1]. The scan is leftmost and non-overlapping: it copies the
\* text up to the next match, replaces the match and goes on after it.
RECURSIVE ReSubFrom(_, _, _, _)
ReSubFrom(MatchEnd(_, _), Repl(_, _, _), s, i) ==
    LET ms == {k \in i..Len(s) : MatchEnd(s, k) > k}
    IN  IF ms = {} THEN Slice(s, i, Len(s) + 1)
        ELSE LET m == Min(ms)
             IN  Slice(s, i, m) \o Repl(s, m, MatchEnd(s, m))
                     \o ReSubFrom(MatchEnd, Repl, s, MatchEnd(s, m))

ReSub(MatchEnd(_, _), Repl(_, _, _), s) == ReSubFrom(MatchEnd, Repl, s, 1)

\* str.strip()
LStrip(s) == Slice(s, SkipSpace(s, 1), Len(s) + 1)
RStrip(s) ==
    LET keep == {k \in DOMAIN s : ~IsSpace(s[k])}
    IN  IF keep = {} THEN <<>> ELSE SubSeq(s, 1, Max(keep))
Strip(s) == LStrip(RStrip(s))

\* re.sub(r"\s{2,}", " ", s)
MultiSpaceEnd(s, i) ==
    LET e == SkipSpace(s, i) IN IF e >= i + 2 THEN e ELSE 0
OneSpace(s, i, e) == <<" ">>
CollapseSpaces(s) == ReSub(MultiSpaceEnd, OneSpace, s)

\* re.sub(r"\s+\.", ".", s)
SpaceDotEnd(s, i) ==
    LET e == SkipSpace(s, i)
    IN  IF e > i /\ e <= Len(s) /\ s[e] = "." THEN e + 1 ELSE 0
OneDot(s, i, e) == <<".">>
FixSpaceDot(s) == ReSub(SpaceDotEnd, OneDot, s)

----------------------------------------------------------------------------
(* post_fix_fragments *)

FragmentVerbs ==
    << Chars("make"), Chars("do"), Chars("see"), Chars("learn"), Chars("build"),
       Chars("create"), Chars("use"), Chars("help"), Chars("show") >>

\* the alternatives of a group that match at p and are followed by \b
AltsAt(s, p, alts) ==
    {k \in DOMAIN alts : LitAt(s, p, alts[k], TRUE) /\ Boundary(s, p + Len(alts[k]))}

\* r"\.\s+(make|do|see|learn|build|create|use|help|show)\b", IGNORECASE
DotVerbStart(s, i) ==
    IF i <= Len(s) /\ s[i] = "." /\ SkipSpace(s, i + 1) > i + 1
    THEN SkipSpace(s, i + 1) ELSE 0
DotVerbEnd(s, i) ==
    LET p == DotVerbStart(s, i)
    IN  IF p > 0 /\ AltsAt(s, p, FragmentVerbs) # {}
        THEN p + Len(FragmentVerbs[Min(AltsAt(s, p, FragmentVerbs))]) ELSE 0
\* r" and \1"
AndVerb(s, i, e) == Chars(" and ") \o Slice(s, DotVerbStart(s, i), e)

\* r"\.\s+and\b", IGNORECASE
DotAndEnd(s, i) ==
    LET p == DotVerbStart(s, i)
    IN  IF p > 0 /\ LitAt(s, p, Chars("and"), TRUE) /\ Boundary(s, p + 3)
        THEN p + 3 ELSE 0
SpaceAnd(s, i, e) == Chars(" and")

post_fix_fragments(text) ==
    LET t1 == ReSub(DotVerbEnd, AndVerb, text)
        t2 == ReSub(DotAndEnd, SpaceAnd, t1)
        t3 == FixSpaceDot(t2)
    IN  Strip(CollapseSpaces(t3))

----------------------------------------------------------------------------
(* too_similar: difflib.SequenceMatcher(None, a, b).ratio() >= 0.80.        *)
(* No element is junk: autojunk only acts on a b of 200 or more elements,   *)
(* and every text of this model is shorter.                                 *)

\* the length of the common run of a and b that starts at (i, j) and stays
\* inside a[..ahi-1], b[..bhi-1]
RECURSIVE RunLen(_, _, _, _, _, _)
RunLen(a, b, i, j, ahi, bhi) ==
    IF i < ahi /\ j < bhi /\ a[i] = b[j]
    THEN 1 + RunLen(a, b, i + 1, j + 1, ahi, bhi) ELSE 0

\* SequenceMatcher.find_longest_match(alo, ahi, blo, bhi): <<i, j, k>>, the
\* longest common block of a[alo..ahi-1] and b[blo..bhi-1], of those the one
\* starting earliest in a, and of those the one starting earliest in b
find_longest_match(a, b, alo, ahi, blo, bhi) ==
    LET starts == {p \in (alo..(ahi - 1)) \X (blo..(bhi - 1)) :
                      /\ a[p[1]] = b[p[2]]
                      /\ (p[1] = alo \/ p[2] = blo \/ a[p[1] - 1] # b[p[2] - 1])}
        runs == {<<RunLen(a, b, p[1], p[2], ahi, bhi), p[1], p[2]>> : p \in starts}
        k == Max({r[1] : r \in runs})
        i == Min({r[2] : r \in {x \in runs : x[1] = k}})
        j == Min({r[3] : r \in {x \in runs : x[1] = k /\ x[2] = i}})
    IN  IF starts = {} THEN <<alo, blo, 0>> ELSE <<i, j, k>>

\* the total size of SequenceMatcher.get_matching_blocks() inside the window
RECURSIVE MatchedIn(_, _, _, _, _, _)
MatchedIn(a, b, alo, ahi, blo, bhi) ==
    IF alo >= ahi \/ blo >= bhi THEN 0
    ELSE LET m == find_longest_match(a, b, alo, ahi, blo, bhi)
         IN  IF m[3] = 0 THEN 0
             ELSE m[3] + MatchedIn(a, b, alo, m[1], blo, m[2])
                       + MatchedIn(a, b, m[1] + m[3], ahi, m[2] + m[3], bhi)

\* ratio() = 2.0 * matches / (len(a) + len(b)), and 1.0 for two empty texts;
\* ratio() >= 0.80 is decided in integers: 10 * matches >= 4 * (len(a) + len(b))
too_similar(a, b) ==
    \/ Len(a) + Len(b) = 0
    \/ 10 * MatchedIn(a, b, 1, Len(a) + 1, 1, Len(b) + 1) >= 4 * (Len(a) + Len(b))

----------------------------------------------------------------------------
(* looks_instructional *)

\* re.split(r"(?<=[.!?])\s+", s): the pieces between the whitespace runs that
\* follow a ".", "!" or "?"
RECURSIVE SplitFrom(_, _)
SplitFrom(s, start) ==
    LET cuts == {i \in start..Len(s) :
                    IsSpace(s[i]) /\ i > 1 /\ s[i - 1] \in {".", "!", "?"}}
    IN  IF cuts = {} THEN <<Slice(s, start, Len(s) + 1)>>
        ELSE <<Slice(s, start, Min(cuts))>> \o SplitFrom(s, SkipSpace(s, Min(cuts)))
SplitSentences(s) == SplitFrom(s, 1)

\* some literal of lits stands at p, followed by \b when bounded
AnyLitAt(s, p, lits, bounded) ==
    \E l \in lits : LitAt(s, p, l, TRUE) /\ (bounded => Boundary(s, p + Len(l)))

\* r"^\s*(instruction|instructions|instructing)\s*:?"
PatInstruction(s) ==
    AnyLitAt(s, SkipSpace(s, 1),
             {Chars("instruction"), Chars("instructions"), Chars("instructing")}, FALSE)

\* r"(short|simple|easy)\s+(words|sentences)\b" at p
EasyWordsAt(s, p) ==
    \E adj \in {Chars("short"), Chars("simple"), Chars("easy")} :
        /\ LitAt(s, p, adj, TRUE)
        /\ SkipSpace(s, p + Len(adj)) > p + Len(adj)
        /\ AnyLitAt(s, SkipSpace(s, p + Len(adj)),
                    {Chars("words"), Chars("sentences")}, TRUE)

\* r"^\s*(use|using)\s+(very\s+)?(short|simple|easy)\s+(words|sentences)\b"
PatUseShort(s) ==
    \E u \in {Chars("use"), Chars("using")} :
        LET p1 == SkipSpace(s, 1)
            p2 == SkipSpace(s, p1 + Len(u))
            p3 == SkipSpace(s, p2 + 4)
        IN  /\ LitAt(s, p1, u, TRUE)
            /\ p2 > p1 + Len(u)
            /\ \/ EasyWordsAt(s, p2)
               \/ LitAt(s, p2, Chars("very"), TRUE) /\ p3 > p2 + 4 /\ EasyWordsAt(s, p3)

\* the end of r"\b(simplify|grade\s*\d)\b" matched at i, or 0
SimplifyGradeEnd(s, i) ==
    LET d == SkipSpace(s, i + 5)
    IN  IF ~Boundary(s, i) THEN 0
        ELSE IF LitAt(s, i, Chars("simplify"), TRUE) /\ Boundary(s, i + 8) THEN i + 8
        ELSE IF /\ LitAt(s, i, Chars("grade"), TRUE)
                /\ d <= Len(s) /\ IsDigit(s[d]) /\ Boundary(s, d + 1) THEN d + 1
        ELSE 0

\* r"\b(simplify|grade\s*\d)\b.*\b(use|using)\b": "." is any character but "\n"
PatSimplifyUse(s) ==
    \E i \in 1..Len(s) :
        LET e == SimplifyGradeEnd(s, i)
        IN  /\ e > 0
            /\ \E q \in e..Len(s) :
                  /\ \A k \in e..(q - 1) : s[k] # "\n"
                  /\ Boundary(s, q)
                  /\ AnyLitAt(s, q, {Chars("use"), Chars("using")}, TRUE)

\* r"^\s*simplified\s*:?"
PatSimplified(s) == LitAt(s, SkipSpace(s, 1), Chars("simplified"), TRUE)
\* r"^\s*a paraphrase\b"
PatParaphrase(s) == AnyLitAt(s, SkipSpace(s, 1), {Chars("a paraphrase")}, TRUE)
\* r"^\s*quote from\b"
PatQuoteFrom(s) == AnyLitAt(s, SkipSpace(s, 1), {Chars("quote from")}, TRUE)

looks_instructional(text) ==
    \E s \in Range(SplitSentences(Strip(text))) :
        \/ PatInstruction(s) \/ PatUseShort(s) \/ PatSimplifyUse(s)
        \/ PatSimplified(s) \/ PatParaphrase(s) \/ PatQuoteFrom(s)

----------------------------------------------------------------------------
(* The fact extractors *)

\* NER (main.py:11-15): TRUE when the spaCy recognizer loaded at start-up,
\* FALSE when the import failed and NER is None
VARIABLE NER

\* re.finditer / re.findall for a pattern that never matches the empty string:
\* the matched slices, leftmost and non-overlapping
RECURSIVE FindAllFrom(_, _, _)
FindAllFrom(MatchEnd(_, _), s, i) ==
    LET ms == {k \in i..Len(s) : MatchEnd(s, k) > k}
    IN  IF ms = {} THEN <<>>
        ELSE LET m == Min(ms)
             IN  <<Slice(s, m, MatchEnd(s, m))>> \o FindAllFrom(MatchEnd, s, MatchEnd(s, m))

\* x in xs, for a list
InList(x, xs) == \E k \in DOMAIN xs : xs[k] = x

\* the list without its repeated entries, the first occurrence kept
RECURSIVE DedupInto(_, _)
DedupInto(acc, xs) ==
    IF xs = <<>> THEN acc
    ELSE DedupInto(IF InList(Head(xs), acc) THEN acc ELSE Append(acc, Head(xs)), Tail(xs))
Dedup(xs) == DedupInto(<<>>, xs)

\* [x for x in xs if Keep(x)]
RECURSIVE FilterSeq(_, _)
FilterSeq(Keep(_), xs) ==
    IF xs = <<>> THEN <<>>
    ELSE (IF Keep(Head(xs)) THEN <<Head(xs)>> ELSE <<>>) \o FilterSeq(Keep, Tail(xs))

\* xs[:n]
Take(xs, n) == SubSeq(xs, 1, IF Len(xs) < n THEN Len(xs) ELSE n)

\* NUM_RE = r"[-+]?\d*\.?\d+([/%])?" matched at i: the position after the match,
\* or 0. With the greedy \d* and \.? the match is digits "." digits when a digit
\* follows the point, else the leading digits alone.
NumEnd(s, i) ==
    LET p == IF i <= Len(s) /\ s[i] \in {"-", "+"} THEN i + 1 ELSE i
        d == SkipDigits(s, p)
        f == SkipDigits(s, d + 1)
        core == IF d <= Len(s) /\ s[d] = "." /\ f > d + 1 THEN f
                ELSE IF d > p THEN d ELSE 0
    IN  IF core > 0 /\ core <= Len(s) /\ s[core] \in {"/", "%"} THEN core + 1 ELSE core

extract_numbers(text) == FindAllFrom(NumEnd, text, 1)

\* NUM_RE.fullmatch(w)
NumFullMatch(w) ==
    LET a == IF w # <<>> /\ w[1] \in {"-", "+"} THEN 2 ELSE 1
        z == IF Len(w) >= a /\ w[Len(w)] \in {"/", "%"} THEN Len(w) - 1 ELSE Len(w)
    IN  /\ z >= a
        /\ IsDigit(w[z])
        /\ \A k \in a..z : IsDigit(w[k]) \/ w[k] = "."
        /\ Cardinality({k \in a..z : w[k] = "."}) <= 1

\* [a-zA-Z0-9\-]
IsEntityChar(c) == IsAlpha(c) \/ IsDigit(c) \/ c = "-"

RECURSIVE SkipEntityChars(_, _)
SkipEntityChars(s, i) ==
    IF i <= Len(s) /\ IsEntityChar(s[i]) THEN SkipEntityChars(s, i + 1) ELSE i

\* the positions where r"[A-Z][a-zA-Z0-9\-]+(?:\s[A-Z][a-zA-Z0-9\-]+)*" can end
\* when its current word starts with the capital at c
RECURSIVE EntityEnds(_, _)
EntityEnds(s, c) ==
    LET r == SkipEntityChars(s, c + 1)
    IN  IF r = c + 1 THEN {}
        ELSE ((c + 2)..r) \cup
             (IF r + 1 <= Len(s) /\ IsSpace(s[r]) /\ IsUpper(s[r + 1])
              THEN EntityEnds(s, r + 1) ELSE {})

\* r"\b([A-Z][a-zA-Z0-9\-]+(?:\s[A-Z][a-zA-Z0-9\-]+)*)\b" matched at i: greedy,
\* so the longest end at which the closing \b holds
EntityEnd(s, i) ==
    LET ends == IF i <= Len(s) /\ IsUpper(s[i]) /\ Boundary(s, i)
                THEN {e \in EntityEnds(s, i) : Boundary(s, e)} ELSE {}
    IN  IF ends = {} THEN 0 ELSE Max(ends)

blacklist ==
    {Chars("I"), Chars("The"), Chars("A"), Chars("An"), Chars("In"), Chars("On"),
     Chars("At"), Chars("For"), Chars("By"), Chars("To"), Chars("And"), Chars("But"),
     Chars("Or")}
NotBlacklisted(c) == c \notin blacklist

\* A stand-in for the spaCy recognizer: it knows these names and labels them.
NerNames ==
    << <<Chars("Paris"), "GPE">>, <<Chars("NASA"), "ORG">>, <<Chars("Mars"), "LOC">>,
       <<Chars("Monday"), "DATE">> >>
NerLabels ==
    {"PERSON", "ORG", "GPE", "NORP", "FAC", "LOC", "PRODUCT", "EVENT", "WORK_OF_ART",
     "LAW", "LANGUAGE"}
NerNameAt(s, i) ==
    {k \in DOMAIN NerNames :
        /\ LitAt(s, i, NerNames[k][1], FALSE)
        /\ Boundary(s, i) /\ Boundary(s, i + Len(NerNames[k][1]))}
AllowedNameEnd(s, i) ==
    LET ks == {k \in NerNameAt(s, i) : NerNames[k][2] \in NerLabels}
    IN  IF i <= Len(s) /\ ks # {} THEN i + Len(NerNames[Min(ks)][1]) ELSE 0
\* [ent.text for ent in NER(text).ents if ent.label_ in {...}]
NerEnts(text) == FindAllFrom(AllowedNameEnd, text, 1)

\* the capitalized-word heuristic path of extract_entities (NER is None)
HeuristicEntities(text) == FilterSeq(NotBlacklisted, FindAllFrom(EntityEnd, text, 1))

extract_entities(text) ==
    IF ~NER THEN HeuristicEntities(text) ELSE Dedup(NerEnts(text))

STOPWORDS ==
    {Chars("a"), Chars("an"), Chars("the"), Chars("and"), Chars("or"), Chars("but"),
     Chars("so"), Chars("because"), Chars("while"), Chars("when"), Chars("which"),
     Chars("that"), Chars("this"), Chars("those"), Chars("these"), Chars("in"),
     Chars("on"), Chars("at"), Chars("by"), Chars("to"), Chars("for"), Chars("from"),
     Chars("of"), Chars("into"), Chars("as"), Chars("with"), Chars("is"), Chars("are"),
     Chars("was"), Chars("were"), Chars("be"), Chars("being"), Chars("been"),
     Chars("do"), Chars("does"), Chars("did"), Chars("doing"), Chars("have"),
     Chars("has"), Chars("had"), Chars("having"), Chars("it"), Chars("its"),
     Chars("they"), Chars("them"), Chars("he"), Chars("she"), Chars("we"), Chars("you"),
     Chars("i"), Chars("our"), Chars("your"), Chars("their")}

\* str.split(): the maximal runs of non-whitespace
RECURSIVE SkipNonSpace(_, _)
SkipNonSpace(s, i) ==
    IF i <= Len(s) /\ ~IsSpace(s[i]) THEN SkipNonSpace(s, i + 1) ELSE i
WordEnd(s, i) == IF i <= Len(s) /\ ~IsSpace(s[i]) THEN SkipNonSpace(s, i) ELSE 0
SplitWords(s) == FindAllFrom(WordEnd, s, 1)

\* w.strip(".,;:!?()[]\"'")
IsStripPunct(c) ==
    c \in {".", ",", ";", ":", "!", "?", "(", ")", "[", "]", "\"", "'"}
RECURSIVE StripPunct(_)
StripPunct(w) ==
    IF w # <<>> /\ IsStripPunct(w[1]) THEN StripPunct(Tail(w))
    ELSE IF w # <<>> /\ IsStripPunct(w[Len(w)]) THEN StripPunct(SubSeq(w, 1, Len(w) - 1))
    ELSE w

IsCoreWord(w) == w # <<>> /\ w \notin STOPWORDS /\ ~NumFullMatch(w) /\ Len(w) >= 5

core_content_words(text, limit) ==
    LET words == [k \in DOMAIN SplitWords(text) |-> Lower(StripPunct(SplitWords(text)[k]))]
    IN  Take(Dedup(FilterSeq(IsCoreWord, words)), limit)

NonEmpty(t) == t # <<>>

\* important_tokens without its "t not in tokens" test
important_tokens_no_dedup(original) ==
    Take(FilterSeq(NonEmpty, extract_entities(original) \o extract_numbers(original)
                                 \o core_content_words(original, 6)), 10)

important_tokens(original) ==
    LET ents  == extract_entities(original)
        nums  == extract_numbers(original)
        cores == core_content_words(original, 6)
    IN  Take(Dedup(FilterSeq(NonEmpty, ents \o nums \o cores)), 10)

\* t in s, for two strings
Contains(s, t) == \E i \in 1..(Len(s) + 1) : LitAt(s, i, t, FALSE)

\* str.isnumeric(), on ASCII
IsNumeric(t) == t # <<>> /\ \A k \in DOMAIN t : IsDigit(t[k])

missing_required(original, simplified) ==
    LET sim_low == Lower(simplified)
        IsMissing(t) == IF IsNumeric(t) THEN ~Contains(simplified, t)
                        ELSE ~Contains(sim_low, Lower(t))
    IN  FilterSeq(IsMissing, important_tokens(original))

\* build_checks with the two "missing" comprehensions turned round: what the
\* simplified text adds, not what it lacks
build_checks_reversed(original, simplified) ==
    LET orig_nums == extract_numbers(original)
        simp_nums == extract_numbers(simplified)
        orig_ents == extract_entities(original)
        simp_ents == extract_entities(simplified)
        NotInOrigNums(n) == ~InList(n, orig_nums)
        NotInOrigEnts(e) == ~InList(e, orig_ents)
    IN  [original_numbers    |-> orig_nums,
         simplified_numbers  |-> simp_nums,
         missing_numbers     |-> FilterSeq(NotInOrigNums, simp_nums),
         original_entities   |-> orig_ents,
         simplified_entities |-> simp_ents,
         missing_entities    |-> FilterSeq(NotInOrigEnts, simp_ents),
         used_spacy          |-> NER]

build_checks(original, simplified) ==
    LET orig_nums == extract_numbers(original)
        simp_nums == extract_numbers(simplified)
        orig_ents == extract_entities(original)
        simp_ents == extract_entities(simplified)
        NotInSimpNums(n) == ~InList(n, simp_nums)
        NotInSimpEnts(e) == ~InList(e, simp_ents)
    IN  [original_numbers    |-> orig_nums,
         simplified_numbers  |-> simp_nums,
         missing_numbers     |-> FilterSeq(NotInSimpNums, orig_nums),
         original_entities   |-> orig_ents,
         simplified_entities |-> simp_ents,
         missing_entities    |-> FilterSeq(NotInSimpEnts, orig_ents),
         used_spacy          |-> NER]

----------------------------------------------------------------------------
(* The rule rewriter: apply_rules and forced_rewrite *)

PHRASES ==
    << <<Chars("data packets"), Chars("small pieces of data")>>,
       <<Chars("across the globe"), Chars("around the world")>>,
       <<Chars("greenhouse gases"), Chars("gases that keep heat")>>,
       <<Chars("ultraviolet radiation"), Chars("UV rays")>>,
       <<Chars("to enable"), Chars("so that")>>,
       <<Chars("with minimal human intervention"), Chars("with little help from people")>>,
       <<Chars("recognize patterns"), Chars("find common patterns")>> >>
G1_WORDS ==
    << <<Chars("algorithms"), Chars("step-by-step rules")>>,
       <<Chars("algorithm"), Chars("step-by-step rule")>>,
       <<Chars("intervention"), Chars("help")>>,
       <<Chars("approximately"), Chars("about")>>,
       <<Chars("utilize"), Chars("use")>>,
       <<Chars("protocols"), Chars("rules for sending data")>>,
       <<Chars("organisms"), Chars("living things")>>,
       <<Chars("organism"), Chars("living thing")>>,
       <<Chars("emitted"), Chars("given off")>>,
       <<Chars("accumulation"), Chars("build-up")>>,
       <<Chars("glucose"), Chars("sugar")>>,
       <<Chars("radiation"), Chars("rays")>> >>
G2_WORDS ==
    << <<Chars("algorithms"), Chars("step-by-step rules")>>,
       <<Chars("intervention"), Chars("help")>>,
       <<Chars("approximately"), Chars("about")>>,
       <<Chars("utilize"), Chars("use")>>,
       <<Chars("protocols"), Chars("rules for sending data")>>,
       <<Chars("organisms"), Chars("living things")>>,
       <<Chars("emitted"), Chars("given off")>>,
       <<Chars("accumulation"), Chars("build-up")>>,
       <<Chars("glucose"), Chars("sugar")>> >>
G3_WORDS ==
    << <<Chars("utilize"), Chars("use")>>,
       <<Chars("approximately"), Chars("about")>> >>

\* re.sub(rf"\b{lit}\b", rep, s, flags=re.IGNORECASE)
ReplaceWord(s, lit, rep) ==
    LET WordEndAt(t, i) ==
            IF Boundary(t, i) /\ LitAt(t, i, lit, TRUE) /\ Boundary(t, i + Len(lit))
            THEN i + Len(lit) ELSE 0
        Rep(t, i, e) == rep
    IN  ReSub(WordEndAt, Rep, s)

\* the substitutions of a table, applied in its order
RECURSIVE ReplaceAll(_, _)
ReplaceAll(s, rules) ==
    IF rules = <<>> THEN s
    ELSE ReplaceAll(ReplaceWord(s, Head(rules)[1], Head(rules)[2]), Tail(rules))

apply_rules(text, grade) ==
    LET mapping == IF grade = 1 THEN G1_WORDS ELSE IF grade = 2 THEN G2_WORDS ELSE G3_WORDS
        out1 == ReplaceAll(text, PHRASES)
        out2 == ReplaceAll(out1, mapping)
        out3 == ReplaceWord(out2, Chars("so that computers can"), Chars("so computers can"))
    IN  Strip(CollapseSpaces(out3))

\* r",\s*(which|that)\s+", IGNORECASE
CommaWhichEnd(s, i) ==
    LET p == SkipSpace(s, i + 1)
        w == IF LitAt(s, p, Chars("which"), TRUE) THEN p + 5
             ELSE IF LitAt(s, p, Chars("that"), TRUE) THEN p + 4 ELSE 0
    IN  IF i <= Len(s) /\ s[i] = "," /\ w > 0 /\ SkipSpace(s, w) > w
        THEN SkipSpace(s, w) ELSE 0
DotThis(s, i, e) == Chars(". This ")

\* r"\.\s+and\s+", IGNORECASE
DotAndSpaceEnd(s, i) ==
    LET p == DotVerbStart(s, i)
        q == SkipSpace(s, p + 3)
    IN  IF p > 0 /\ LitAt(s, p, Chars("and"), TRUE) /\ q > p + 3 THEN q ELSE 0
SpaceAndSpace(s, i, e) == Chars(" and ")

forced_rewrite(original, grade) ==
    LET txt1 == apply_rules(original, grade)
        txt2 == ReSub(CommaWhichEnd, DotThis, txt1)
        txt3 == ReSub(DotAndSpaceEnd, SpaceAndSpace, txt2)
        txt4 == FixSpaceDot(txt3)
    IN  Strip(CollapseSpaces(txt4))

\* build_prompt: the prompt is the fixed FEW_SHOT examples, the guide line of the
\* grade, the "Make sure to include" list (absent for None and for an empty
\* list) and the stripped text; the record holds the parts that vary.
build_prompt(text, grade, must_include) ==
    [guide |-> grade, include |-> must_include, original |-> Strip(text)]

----------------------------------------------------------------------------
(* State *)

VARIABLES
    _tokenizer,    \* the global _tokenizer: 0 is None, n the n-th tokenizer loaded
    _model,        \* the global _model: 0 is None, n the n-th model loaded
    model_loads,   \* how many models AutoModelForSeq2SeqLM.from_pretrained loaded
    max_length,    \* model_max_length of each tokenizer loaded (0: the library's)
    req,           \* the SimplifyRequest being served
    pc,            \* where simplify_text stands
    gen_out,       \* try_model_once's local out: the last gen_once result
    out,           \* simplify_text's local out: the current candidate
    must_include,  \* the must_include of the current try_model_once (<<>>: None)
    attempt,       \* iterations of the "for _ in range(2)" loop that retried
    miss,          \* simplify_text's local miss
    forced,        \* whether step 3 took the forced_rewrite branch
    calls,         \* the gen_once invocations so far: prompt, max_new, sample
    tries,         \* the try_model_once calls started so far
    response,      \* the SimplifyResponse, once returned
    tpc,           \* per thread: where its get_model call stands
    tcalls,        \* per thread: the get_model calls it has started
    tret,          \* per thread: the handles its last get_model returned
    fn_text,       \* the argument of the function applied
    fn,            \* the function applied to fn_text
    fn_val         \* its result

modelVars == <<_tokenizer, _model, model_loads, max_length>>
reqVars == <<req, pc, gen_out, out, must_include, attempt, miss, forced, calls, tries,
             response>>
threadVars == <<tpc, tcalls, tret>>
fnVars == <<fn_text, fn, fn_val>>
vars == <<NER, modelVars, reqVars, threadVars, fnVars>>

\* the model is not loaded: _tokenizer = None, _model = None
ModelInit ==
    /\ _tokenizer = 0 /\ _model = 0 /\ model_loads = 0
    /\ max_length = <<>>

\* no request is being served
ReqIdle ==
    /\ req = [text |-> <<>>, grade |-> 0, max_new_tokens |-> 0]
    /\ pc = "idle"
    /\ gen_out = <<>> /\ out = <<>>
    /\ must_include = <<>>
    /\ attempt = 0
    /\ miss = <<>>
    /\ forced = FALSE
    /\ calls = <<>>
    /\ tries = 0
    /\ response = [simplified |-> <<>>, grade |-> 0, checks |-> <<>>]

\* no thread is in get_model
ThreadsIdle ==
    /\ tpc = <<>>
    /\ tcalls = <<>>
    /\ tret = <<>>

\* no function is being applied
FnIdle ==
    /\ fn_text = <<>>
    /\ fn = "none"
    /\ fn_val = <<>>

----------------------------------------------------------------------------
(* The request pipeline: simplify -> simplify_text -> try_model_once ->     *)
(* gen_once -> get_model, then build_checks; one request, one thread.       *)

\* max_new_tokens: int = 220 (SimplifyRequest)
DefaultMaxNew == 220

\* The texts of the requests served, each with rewrites the generator may give
\* for it. The generator is a black box: on every invocation it may return any
\* of them, the empty text, an echo of the prompt's instructions, or a copy of
\* the original.
Originals ==
    << [text |-> Chars("Excess carbon dioxide traps heat in the atmosphere, increasing global temperatures by 2 degrees."),
        rewrites |->
          { Chars("Excess carbon dioxide traps heat. The atmosphere is increasing by 2."),
            Chars("Too much carbon dioxide traps heat.. and the atmosphere warms by 2 degrees. "),
            Chars("The air gets hot.") }],
       [text |-> Chars("In 2020 NASA sent 3 robots to Mars, which utilize solar energy."),
        rewrites |->
          { Chars("NASA sent 3 robots to Mars in 2020. The robots utilize energy from solar light."),
            Chars("In 2020 NASA sent 3 robots to Mars, which utilize sun energy.") }],
       [text |-> Chars("Paris is big. Paris is old."),
        rewrites |->
          { Chars("Paris is a large and old city."),
            Chars("It is big .  Make it old") }] >>

InstructionEcho == Chars("Instructions: use short sentences")

\* what tok.decode(...) may give for a request on text
RawOutputs(text) ==
    {<<>>, text, InstructionEcho}
        \cup UNION {Originals[k].rewrites : k \in {j \in DOMAIN Originals : Originals[j].text = text}}

\* a request passed validation (grade in 1..3, text of 5 characters or more)
\* and simplify_text is about to make its first try_model_once call
ReqInit ==
    /\ \E k \in DOMAIN Originals, g \in 1..3 :
          req = [text |-> Originals[k].text, grade |-> g, max_new_tokens |-> DefaultMaxNew]
    /\ pc = "beam"
    /\ gen_out = <<>> /\ out = <<>>
    /\ must_include = <<>>
    /\ attempt = 0
    /\ miss = <<>>
    /\ forced = FALSE
    /\ calls = <<>>
    /\ tries = 1
    /\ response = [simplified |-> <<>>, grade |-> 0, checks |-> <<>>]

\* get_model, run by one thread without interruption
GetModel ==
    IF _tokenizer = 0 \/ _model = 0
    THEN /\ _tokenizer' = Len(max_length) + 1
         /\ _model' = model_loads + 1
         /\ model_loads' = model_loads + 1
         /\ max_length' = Append(max_length, 512)
    ELSE UNCHANGED modelVars

\* gen_once(prompt, max_new, sample) returning decode(...).strip() of raw
GenOnce(raw, sample) ==
    /\ GetModel
    /\ gen_out' = Strip(raw)
    /\ calls' = Append(calls, [prompt  |-> build_prompt(req.text, req.grade, must_include),
                               max_new |-> req.max_new_tokens,
                               sample  |-> sample,
                               try     |-> tries])

\* the test of try_model_once without its "not out"
RejectedUnlessEmpty(text, o) == looks_instructional(o) \/ too_similar(text, o)

\* the test of try_model_once on the deterministic output
Rejected(text, o) == looks_instructional(o) \/ o = <<>> \/ too_similar(text, o)

\* try_model_once up to its first gen_once, the beam search one
GenBeam ==
    /\ pc = "beam"
    /\ \E raw \in RawOutputs(req.text) :
          /\ GenOnce(raw, FALSE)
          /\ IF Rejected(req.text, Strip(raw))
             THEN pc' = "sample" /\ out' = out
             ELSE pc' = "verify" /\ out' = post_fix_fragments(Strip(raw))
    /\ UNCHANGED <<NER, req, must_include, attempt, miss, forced, tries, response,
                   threadVars, fnVars>>

\* try_model_once from its second gen_once, the sampling one
GenSample ==
    /\ pc = "sample"
    /\ \E raw \in RawOutputs(req.text) :
          /\ GenOnce(raw, TRUE)
          /\ out' = post_fix_fragments(Strip(raw))
    /\ pc' = "verify"
    /\ UNCHANGED <<NER, req, must_include, attempt, miss, forced, tries, response,
                   threadVars, fnVars>>

\* range(3) in place of range(2)
RetryLimitOffByOne == 2 + 1
\* how many times the loop of step 2 runs: range(2)
RetryLimit == 2
\* miss in place of miss[:6]: important_tokens holds 10 tokens at most
IncludeEveryMissing == 6 + 4
\* how many missing tokens go into must_include: miss[:6]
IncludeLimit == 6

\* one pass of the loop "for _ in range(2)" of simplify_text, up to the
\* try_model_once it starts; past the last pass, the loop's exit
VerifyFacts ==
    /\ pc = "verify"
    /\ IF attempt < RetryLimit
       THEN /\ miss' = missing_required(req.text, out)
            /\ IF miss' = <<>>
               THEN pc' = "similarity" /\ UNCHANGED <<must_include, attempt, tries>>
               ELSE /\ must_include' = Take(miss', IncludeLimit)
                    /\ attempt' = attempt + 1
                    /\ tries' = tries + 1
                    /\ pc' = "beam"
       ELSE pc' = "similarity" /\ UNCHANGED <<miss, must_include, attempt, tries>>
    /\ UNCHANGED <<NER, modelVars, req, gen_out, out, forced, calls, response,
                   threadVars, fnVars>>

\* step 3 rewriting the candidate in place of the original
SimilarityCheckOnCandidate ==
    /\ pc = "similarity"
    /\ IF too_similar(req.text, out)
       THEN out' = forced_rewrite(out, req.grade) /\ forced' = TRUE
       ELSE UNCHANGED <<out, forced>>
    /\ pc' = "polish"
    /\ UNCHANGED <<NER, modelVars, req, gen_out, must_include, attempt, miss, calls,
                   tries, response, threadVars, fnVars>>

\* step 3 of simplify_text
SimilarityCheck ==
    /\ pc = "similarity"
    /\ IF too_similar(req.text, out)
       THEN out' = forced_rewrite(req.text, req.grade) /\ forced' = TRUE
       ELSE UNCHANGED <<out, forced>>
    /\ pc' = "polish"
    /\ UNCHANGED <<NER, modelVars, req, gen_out, must_include, attempt, miss, calls,
                   tries, response, threadVars, fnVars>>

\* step 4 of simplify_text, then build_checks and the response of simplify
Polish ==
    /\ pc = "polish"
    /\ out' = post_fix_fragments(out)
    /\ response' = [simplified |-> out', grade |-> req.grade,
                    checks |-> build_checks(req.text, out')]
    /\ pc' = "done"
    /\ UNCHANGED <<NER, modelVars, req, gen_out, must_include, attempt, miss, forced,
                   calls, tries, threadVars, fnVars>>

Init == NER \in BOOLEAN /\ ModelInit /\ ReqInit /\ ThreadsIdle /\ FnIdle
Next == GenBeam \/ GenSample \/ VerifyFacts \/ SimilarityCheck \/ Polish
Spec == Init /\ [][Next]_vars

----------------------------------------------------------------------------
(* get_model under the threads of the host: FastAPI runs the synchronous    *)
(* endpoints warmup and simplify in a thread pool, and get_model takes no   *)
(* lock, so its steps interleave.                                           *)

NumThreads == 2
MaxCalls == 2
Threads == 1..NumThreads

ThreadsInit ==
    /\ tpc = [t \in Threads |-> "idle"]
    /\ tcalls = [t \in Threads |-> 0]
    /\ tret = [t \in Threads |-> <<0, 0>>]

Goto(t, where) == tpc' = [tpc EXCEPT ![t] = where]

\* warmup(), or gen_once() for simplify, calls get_model()
CallGetModel(t) ==
    /\ tpc[t] = "idle"
    /\ tcalls[t] < MaxCalls
    /\ tcalls' = [tcalls EXCEPT ![t] = @ + 1]
    /\ Goto(t, "check_tokenizer")
    /\ UNCHANGED <<NER, modelVars, reqVars, tret, fnVars>>

\* "if _tokenizer is None or _model is None": the left operand
CheckTokenizer(t) ==
    /\ tpc[t] = "check_tokenizer"
    /\ Goto(t, IF _tokenizer = 0 THEN "load_tokenizer" ELSE "check_model")
    /\ UNCHANGED <<NER, modelVars, reqVars, tcalls, tret, fnVars>>

\* "if _tokenizer is None or _model is None": the right operand
CheckModel(t) ==
    /\ tpc[t] = "check_model"
    /\ Goto(t, IF _model = 0 THEN "load_tokenizer" ELSE "return_tokenizer")
    /\ UNCHANGED <<NER, modelVars, reqVars, tcalls, tret, fnVars>>

\* _tokenizer = AutoTokenizer.from_pretrained(MODEL_NAME)
LoadTokenizer(t) ==
    /\ tpc[t] = "load_tokenizer"
    /\ _tokenizer' = Len(max_length) + 1
    /\ max_length' = Append(max_length, 0)
    /\ Goto(t, "load_model")
    /\ UNCHANGED <<NER, _model, model_loads, reqVars, tcalls, tret, fnVars>>

\* _model = AutoModelForSeq2SeqLM.from_pretrained(MODEL_NAME)
LoadModel(t) ==
    /\ tpc[t] = "load_model"
    /\ _model' = model_loads + 1
    /\ model_loads' = model_loads + 1
    /\ Goto(t, "set_max_length")
    /\ UNCHANGED <<NER, _tokenizer, max_length, reqVars, tcalls, tret, fnVars>>

\* _tokenizer.model_max_length = 512, on the tokenizer the global names now
SetMaxLength(t) ==
    /\ tpc[t] = "set_max_length"
    /\ max_length' = [max_length EXCEPT ![_tokenizer] = 512]
    /\ Goto(t, "return_tokenizer")
    /\ UNCHANGED <<NER, _tokenizer, _model, model_loads, reqVars, tcalls, tret, fnVars>>

\* "return _tokenizer, _model": the read of _tokenizer
ReturnTokenizer(t) ==
    /\ tpc[t] = "return_tokenizer"
    /\ tret' = [tret EXCEPT ![t] = <<_tokenizer, 0>>]
    /\ Goto(t, "return_model")
    /\ UNCHANGED <<NER, modelVars, reqVars, tcalls, fnVars>>

\* "return _tokenizer, _model": the read of _model, and the return
ReturnModel(t) ==
    /\ tpc[t] = "return_model"
    /\ tret' = [tret EXCEPT ![t] = <<@[1], _model>>]
    /\ Goto(t, "idle")
    /\ UNCHANGED <<NER, modelVars, reqVars, tcalls, fnVars>>

ThreadsStart == NER \in BOOLEAN /\ ModelInit /\ ReqIdle /\ ThreadsInit /\ FnIdle
ThreadsNext ==
    \E t \in Threads :
        \/ CallGetModel(t) \/ CheckTokenizer(t) \/ CheckModel(t)
        \/ LoadTokenizer(t) \/ LoadModel(t) \/ SetMaxLength(t)
        \/ ReturnTokenizer(t) \/ ReturnModel(t)
SpecThreads == ThreadsStart /\ [][ThreadsNext]_vars

----------------------------------------------------------------------------
(* The pure functions, applied to texts drawn from a bounded set: a base   *)
(* text followed by up to MaxAtoms atoms.                                   *)

MaxAtoms == 3

BaseTexts ==
    { <<>>,
      Chars("It is old."),
      Chars("Paris is big. "),
      Chars("NASA sent 12 robots to Mars in 2020 because 12 plants utilize solar energy, oxygen, water ") }
Atoms == {Chars("Paris"), Chars(" "), Chars("."), Chars("and")}

RECURSIVE Concat(_)
Concat(xs) == IF xs = <<>> THEN <<>> ELSE Head(xs) \o Concat(Tail(xs))

FnTexts ==
    {b \o Concat(tl) : b \in BaseTexts, tl \in UNION {[1..n -> Atoms] : n \in 0..MaxAtoms}}

FnInit ==
    /\ fn_text \in FnTexts
    /\ fn = "none"
    /\ fn_val = <<>>

ApplyImportantTokens ==
    /\ fn = "none"
    /\ fn' = "important_tokens"
    /\ fn_val' = important_tokens(fn_text)
    /\ UNCHANGED <<NER, modelVars, reqVars, threadVars, fn_text>>

ApplyExtractEntities ==
    /\ fn = "none"
    /\ fn' = "extract_entities"
    /\ fn_val' = extract_entities(fn_text)
    /\ UNCHANGED <<NER, modelVars, reqVars, threadVars, fn_text>>

ApplyPostFixFragments ==
    /\ fn = "none"
    /\ fn' = "post_fix_fragments"
    /\ fn_val' = post_fix_fragments(fn_text)
    /\ UNCHANGED <<NER, modelVars, reqVars, threadVars, fn_text>>

\* post_fix_fragments applied to its own result: fn_val is <<once, twice>>
ApplyPostFixFragmentsAgain ==
    /\ fn = "post_fix_fragments"
    /\ fn' = "post_fix_fragments twice"
    /\ fn_val' = <<fn_val, post_fix_fragments(fn_val)>>
    /\ UNCHANGED <<NER, modelVars, reqVars, threadVars, fn_text>>

FnStart == NER \in BOOLEAN /\ ModelInit /\ ReqIdle /\ ThreadsIdle /\ FnInit
FnNext ==
    \/ ApplyImportantTokens \/ ApplyExtractEntities
    \/ ApplyPostFixFragments \/ ApplyPostFixFragmentsAgain
SpecFn == FnStart /\ [][FnNext]_vars

----------------------------------------------------------------------------
(* Properties *)

NoDuplicates(xs) == \A i, j \in DOMAIN xs : xs[i] = xs[j] => i = j
CallsOfTry(k) == {i \in DOMAIN calls : calls[i].try = k}
\* the request on the carbon-dioxide sentence at grade 1
CarbonRequest == req.text = Originals[1].text /\ req.grade = 1
\* the tokens of the original that missing_required finds absent from the response
StillMissing == Range(missing_required(req.text, response.simplified))
Reported(t) ==
    \/ InList(t, response.checks.missing_numbers)
    \/ InList(t, response.checks.missing_entities)

\* C1, as stated: one call of simplify_text invokes the generator (gen_once) at
\* most 3 times in total.
C1_AtMostThreeGenerations == Len(calls) <= 3

\* how far simplify_text has come: every step of it moves on
Progress ==
    IF pc = "beam" THEN 3 * tries
    ELSE IF pc = "sample" THEN 3 * tries + 1
    ELSE IF pc = "verify" THEN 3 * tries + 2
    ELSE IF pc = "similarity" THEN 12
    ELSE IF pc = "polish" THEN 13 ELSE 14

\* C1, amended: simplify_text terminates (it always stands at one of its steps or
\* at its return, and every step moves it on); it makes at most 3 try_model_once calls (one
\* and at most 2 retries), each of which invokes gen_once once or twice, so at
\* most 6 invocations in total; none happens once the loop is left.
C1_BoundedGenerations ==
    /\ [](/\ tries <= 3
          /\ Len(calls) <= 6
          /\ \A k \in 1..tries : Cardinality(CallsOfTry(k)) <= 2
          /\ \A i \in DOMAIN calls : calls[i].try \in 1..tries
          /\ pc \in {"beam", "sample", "verify", "similarity", "polish", "done"}
          /\ Progress <= 14)
    /\ [][Progress' > Progress]_vars
    /\ [][(pc \in {"similarity", "polish", "done"}) => calls' = calls]_vars
C1_SixGenerations == pc = "done" /\ Len(calls) = 6 /\ tries = 3

\* C2: for the carbon-dioxide sentence at grade 1, whatever the generator
\* returns, the text returned is not too similar (ratio >= 0.80) to the input.
C2_ResultNotTooSimilar ==
    (pc = "done" /\ CarbonRequest) => ~too_similar(req.text, response.simplified)

\* C3, as stated: when the retry loop is exhausted, every important token still
\* missing from the returned text is reported in missing_numbers or
\* missing_entities.
C3_EveryMissingTokenReported ==
    (pc = "done" /\ attempt = 2) => \A t \in StillMissing : Reported(t)

\* C3, amended: when the retry loop is exhausted the pipeline still returns, and
\* every still-missing token that is a number of the original is in
\* missing_numbers, every one that is an entity of the original is in
\* missing_entities; a missing core content word is reported nowhere.
C3_MissingFactsReported ==
    (pc = "done" /\ attempt = 2) =>
        \A t \in StillMissing :
            /\ InList(t, extract_numbers(req.text))
                  => InList(t, response.checks.missing_numbers)
            /\ InList(t, extract_entities(req.text))
                  => InList(t, response.checks.missing_entities)
C3_MissingNumberAndEntity ==
    /\ pc = "done" /\ attempt = 2
    /\ \E t \in StillMissing : InList(t, extract_numbers(req.text))
    /\ \E t \in StillMissing : InList(t, extract_entities(req.text))
    /\ \E t \in StillMissing : ~Reported(t)

\* C4: under concurrent requests the tokenizer/model pair is loaded exactly
\* once, and the handles a caller received are never replaced afterwards.
C4_SingleInitialisation ==
    /\ model_loads <= 1
    /\ Len(max_length) <= 1
    /\ \A t \in Threads :
          (tpc[t] = "idle" /\ tcalls[t] > 0) => tret[t] = <<_tokenizer, _model>>

\* C5: when the similarity check finds the candidate too similar, the candidate
\* is replaced by forced_rewrite(original, grade), the generator is not invoked
\* again, and the text returned is post_fix_fragments(forced_rewrite(original,
\* grade)): it depends on the original and the grade alone.
C5_ForcedRewriteReplaces ==
    /\ [][(pc = "similarity" /\ too_similar(req.text, out))
            => (forced' /\ out' = forced_rewrite(req.text, req.grade) /\ calls' = calls)]_vars
    /\ [][forced => calls' = calls]_vars
    /\ []((pc = "done" /\ forced)
            => response.simplified = post_fix_fragments(forced_rewrite(req.text, req.grade)))
C5_ForcedAfterNearCopy ==
    /\ pc = "done" /\ forced
    /\ gen_out # req.text
    /\ response.simplified # req.text

\* C6: important_tokens has at most 10 entries, no two equal, in the order
\* entities, numbers, core content words, each at its first occurrence: it is
\* the first 10 distinct entries of that concatenation.
C6_ImportantTokens ==
    fn = "important_tokens" =>
        LET all == extract_entities(fn_text) \o extract_numbers(fn_text)
                       \o core_content_words(fn_text, 6)
            First(t) == Min({k \in DOMAIN all : all[k] = t})
            distinct == Cardinality(Range(all))
        IN  /\ Len(fn_val) <= 10
            /\ NoDuplicates(fn_val)
            /\ Range(fn_val) \subseteq Range(all)
            /\ \A i, j \in DOMAIN fn_val : i < j => First(fn_val[i]) < First(fn_val[j])
            /\ \A t \in Range(all) \ Range(fn_val) :
                  \A u \in Range(fn_val) : First(u) < First(t)
            /\ Len(fn_val) = IF distinct < 10 THEN distinct ELSE 10
C6_TruncatedWithDuplicates ==
    /\ fn = "important_tokens"
    /\ Len(fn_val) = 10
    /\ Cardinality(Range(extract_entities(fn_text) \o extract_numbers(fn_text)
                             \o core_content_words(fn_text, 6))) > 10
    /\ ~NoDuplicates(extract_entities(fn_text) \o extract_numbers(fn_text))

\* C7: extract_entities returns no entity twice, with the recognizer and with
\* the capitalized-word heuristic.
C7_EntitiesDeduplicated ==
    fn = "extract_entities" => NoDuplicates(fn_val)

\* C8: in every try_model_once the beam generation runs first; the generator is
\* invoked once more, sampling, on the same prompt, if and only if the beam
\* output is empty, instructional or too similar to the text; the output kept is
\* then the sampled one; post_fix_fragments is applied to the output kept.
C8_BeamThenSample ==
    /\ [][(pc = "beam") =>
            /\ calls' = Append(calls, calls'[Len(calls')])
            /\ ~calls'[Len(calls')].sample
            /\ CallsOfTry(tries) = {}
            /\ (pc' = "sample") <=>
                  (looks_instructional(gen_out') \/ gen_out' = <<>>
                      \/ too_similar(req.text, gen_out'))
            /\ pc' # "sample" => (pc' = "verify" /\ out' = post_fix_fragments(gen_out'))]_vars
    /\ [][(pc = "sample") =>
            /\ calls' = Append(calls, calls'[Len(calls')])
            /\ calls'[Len(calls')].sample
            /\ calls'[Len(calls')].prompt = calls[Len(calls)].prompt
            /\ calls'[Len(calls')].try = calls[Len(calls)].try
            /\ pc' = "verify" /\ out' = post_fix_fragments(gen_out')]_vars
    /\ [][(pc \notin {"beam", "sample"}) => calls' = calls]_vars
C8_SampledOutputKept ==
    /\ pc = "verify"
    /\ Cardinality(CallsOfTry(tries)) = 2
    /\ gen_out # <<>>
    /\ out # gen_out

\* C9: try_model_once is re-run only while missing_required(original, candidate)
\* is non-empty, at most 2 times, each time with must_include the first 6 of the
\* missing list of the most recent candidate; once nothing is missing the loop
\* stops and no further try_model_once call is made.
C9_RetryWhileMissing ==
    /\ [](/\ tries <= 3 /\ attempt <= 2
          /\ \A i \in DOMAIN calls :
                calls[i].try = 1 => calls[i].prompt.include = <<>>
          /\ (pc \in {"beam", "sample"} /\ tries > 1) =>
                LET missing == missing_required(req.text, out)
                IN  /\ missing # <<>>
                    /\ must_include = Take(missing, 6)
                    /\ \A i \in CallsOfTry(tries) : calls[i].prompt.include = must_include)
    /\ [][(pc = "verify") =>
            IF attempt < 2 /\ missing_required(req.text, out) # <<>>
            THEN pc' = "beam" /\ tries' = tries + 1 /\ attempt' = attempt + 1
            ELSE pc' = "similarity" /\ tries' = tries /\ calls' = calls]_vars
    /\ [][(pc \in {"similarity", "polish", "done"}) => (tries' = tries /\ calls' = calls)]_vars
C9_RetryWithSixOfEight ==
    /\ pc = "sample" /\ tries = 3
    /\ Len(miss) = 8
    /\ Len(must_include) = 6
    /\ Len(missing_required(req.text, out)) = 8

\* C10: post_fix_fragments is idempotent: applied to its own result it changes
\* nothing.
C10_PostFixIdempotent ==
    fn = "post_fix_fragments twice" => fn_val[2] = fn_val[1]

====
